---- MODULE Spec2Model ----
(***************************************************************************)
(* Model of src/main.rs: one run of the power-rankings report.  main calls *)
(* run, which builds an HTTP client, fetches the category page, the latest *)
(* article and the league schedule, resolves and sorts the ranking         *)
(* entries, indexes the games of the next seven days per team and prints   *)
(* one block per top-four team.                                            *)
(*                                                                         *)
(* Option<T> is a sequence of length 0 (None) or 1 (Some).  Result<T> is a *)
(* record [ok, val, err], err being the chain of context messages,         *)
(* outermost first.  A NaiveDate is the day of the month of January 2024.  *)
(* A String is a TLA+ string, except a slug, which is a sequence of        *)
(* one-character strings so that trim can be computed.                     *)
(***************************************************************************)
EXTENDS Integers, Sequences, FiniteSets, TLC

VARIABLES
    pc,                    \* position in main/run
    latest_slug,           \* run: latest_slug
    rankings,              \* run: rankings (raw entries of the article)
    schedule,              \* run: schedule.league_schedule.game_dates
    today,                 \* run: today (cutoff is today + WindowDays)
    ranked,                \* run: ranked
    top_four,              \* run: top_four
    upcoming_games_index,  \* run: upcoming_games_index
    printed,               \* number of iterations of the print loop done
    stdout,                \* lines written by println!
    stderr,                \* lines written by eprintln!
    exit_code,             \* process exit status, -1 while running
    err,                   \* error returned by run, <<>> when none
    log                    \* network calls and parses performed, in order

vars == <<pc, latest_slug, rankings, schedule, today, ranked, top_four,
          upcoming_games_index, printed, stdout, stderr, exit_code, err, log>>

----------------------------------------------------------------------------
(* Option and Result *)

None == <<>>
Some(x) == <<x>>
IsSome(o) == o # <<>>
Unwrap(o) == o[1]
\* Option::or
OptionOr(a, b) == IF IsSome(a) THEN a ELSE b

Ok(v) == [ok |-> TRUE, val |-> v, err |-> <<>>]
Err(chain) == [ok |-> FALSE, val |-> <<>>, err |-> chain]
\* anyhow's Context::context: wraps the error, leaves Ok alone
WithContext(r, msg) == IF r.ok THEN r ELSE Err(<<msg>> \o r.err)

\* Duration::days(7) in run
WindowDays == 7
\* take(4) in run
TopCount == 4

----------------------------------------------------------------------------
(* fetch_text and extract_next_data *)

\* Response::error_for_status: Err when the status is a client or a server
\* error (400..599); any other status, a 3xx included, is Ok
IsErrorStatus(status) == status >= 400 /\ status <= 599

\* A response is [sent, status, readable, body]: whether send() returned a
\* response, its status, whether text() could read the body, and the body.
fetch_text(resp) ==
    IF ~resp.sent THEN Err(<<"HTTP request failed">>)
    ELSE IF IsErrorStatus(resp.status)
         THEN Err(<<"unsuccessful HTTP status code">>)
    ELSE IF ~resp.readable THEN Err(<<"failed to read response body">>)
    ELSE Ok(resp.body)

\* An HTML body is [marker, closed, json]: whether the marker occurs, whether
\* "</script>" occurs after it, and the text between them (json_str).
\* deserializes: whether serde_json::from_str::<T> accepts json_str.
extract_next_data(body, deserializes) ==
    IF ~body.marker THEN Err(<<"unable to locate __NEXT_DATA__ script tag">>)
    ELSE IF ~body.closed
         THEN Err(<<"unable to locate end of __NEXT_DATA__ script tag">>)
    ELSE IF ~deserializes
         THEN Err(<<"failed to deserialize __NEXT_DATA__ JSON">>)
    ELSE Ok(body.json)

----------------------------------------------------------------------------
(* fetch_latest_power_rankings_slug *)

Whitespace == {" "}

RECURSIVE TrimStart(_)
TrimStart(s) ==
    IF s # <<>> /\ Head(s) \in Whitespace THEN TrimStart(Tail(s)) ELSE s

RECURSIVE TrimEnd(_)
TrimEnd(s) ==
    IF s # <<>> /\ s[Len(s)] \in Whitespace
    THEN TrimEnd(SubSeq(s, 1, Len(s) - 1))
    ELSE s

\* str::trim
Trim(s) == TrimEnd(TrimStart(s))

\* items.into_iter().find_map(..): the first slug that is not blank, trimmed
RECURSIVE FindSlug(_)
FindSlug(items) ==
    IF items = <<>> THEN None
    ELSE IF Trim(Head(items)) # <<>> THEN Some(Trim(Head(items)))
    ELSE FindSlug(Tail(items))

\* The category JSON is [valid, items]: whether it deserializes into
\* CategoryResponse, and props.pageProps.category.latest.items' slugs.
fetch_latest_power_rankings_slug(resp) ==
    LET body == WithContext(fetch_text(resp),
                            "failed to fetch power rankings category page")
    IN  IF ~body.ok THEN body
        ELSE LET data == extract_next_data(body.val, body.val.json.valid)
             IN  IF ~data.ok THEN data
                 ELSE LET slug == FindSlug(data.val.items)
                      IN  IF IsSome(slug) THEN Ok(Unwrap(slug))
                          ELSE Err(<<"no articles found in power rankings category">>)

----------------------------------------------------------------------------
(* fetch_power_rankings *)

\* The article JSON is [valid, article, powerRankings, entries].  article and
\* powerRankings say whether the key is "missing", "null" or "present";
\* #[serde(default)] fills in a missing key, and a null one does not
\* deserialize into ArticleData or Vec<PowerRankingEntry>.
ArticleDeserializes(json) ==
    /\ json.valid
    /\ json.article # "null"
    /\ (json.article = "present" => json.powerRankings # "null")

\* data.props.page_props.article.power_rankings
PowerRankingsOf(json) ==
    IF json.article = "present" /\ json.powerRankings = "present"
    THEN json.entries
    ELSE <<>>

fetch_power_rankings(resp) ==
    LET body == WithContext(fetch_text(resp),
                            "failed to fetch power rankings article")
    IN  IF ~body.ok THEN body
        ELSE LET data == extract_next_data(body.val,
                                           ArticleDeserializes(body.val.json))
             IN  IF ~data.ok THEN data
                 ELSE Ok(PowerRankingsOf(data.val))

----------------------------------------------------------------------------
(* fetch_schedule *)

\* The schedule body is [valid, game_dates]: whether it deserializes into
\* ScheduleResponse, and leagueSchedule.gameDates, each a sequence of games.
fetch_schedule(resp) ==
    LET body == WithContext(fetch_text(resp), "failed to fetch league schedule")
    IN  IF ~body.ok THEN body
        ELSE IF ~body.val.valid
             THEN Err(<<"failed to parse league schedule JSON">>)
        ELSE Ok(body.val.game_dates)

----------------------------------------------------------------------------
(* run: resolving and ordering the ranking entries *)

\* Mutant of ResolveName: the nickname is tried before the team name
ResolveNameNicknameFirst(entry) ==
    OptionOr(OptionOr(entry.team_nickname, entry.team_name),
             entry.team_display_name)

\* entry.team_name.or(entry.team_nickname).or(entry.team_display_name)
ResolveName(entry) ==
    OptionOr(OptionOr(entry.team_name, entry.team_nickname),
             entry.team_display_name)

\* Mutant of ResolveEntry: an entry without any name is kept, under a
\* default name
ResolveEntryDefaultName(entry) ==
    IF ~IsSome(entry.current_week_rank) THEN None
    ELSE IF ~IsSome(entry.team_id) THEN None
    ELSE Some([rank |-> Unwrap(entry.current_week_rank),
               team_id |-> Unwrap(entry.team_id),
               team_name |-> IF IsSome(entry.team_name)
                             THEN Unwrap(entry.team_name)
                             ELSE "Unknown"])

\* The closure of filter_map: None, or Some(ResolvedRanking)
ResolveEntry(entry) ==
    IF ~IsSome(entry.current_week_rank) THEN None
    ELSE IF ~IsSome(entry.team_id) THEN None
    ELSE IF ~IsSome(ResolveName(entry)) THEN None
    ELSE Some([rank |-> Unwrap(entry.current_week_rank),
               team_id |-> Unwrap(entry.team_id),
               team_name |-> Unwrap(ResolveName(entry))])

\* rankings.into_iter().filter_map(..).collect()
RECURSIVE FilterMap(_)
FilterMap(entries) ==
    IF entries = <<>> THEN <<>>
    ELSE ResolveEntry(Head(entries)) \o FilterMap(Tail(entries))

\* Where a stable sort puts the element with key k among the positions
\* already ordered: after every position whose key is not greater.
RECURSIVE InsertByKey(_, _, _)
InsertByKey(order, i, keys) ==
    IF order = <<>> THEN <<i>>
    ELSE IF keys[Head(order)] <= keys[i]
         THEN <<Head(order)>> \o InsertByKey(Tail(order), i, keys)
    ELSE <<i>> \o order

RECURSIVE SortedOrder(_, _)
SortedOrder(keys, n) ==
    IF n = 0 THEN <<>> ELSE InsertByKey(SortedOrder(keys, n - 1), n, keys)

\* slice::sort_by_key, a stable sort; keys[i] is the key of s[i]
sort_by_key(s, keys) ==
    LET order == SortedOrder(keys, Len(s))
    IN  [k \in 1..Len(s) |-> s[order[k]]]

Reverse(s) == [i \in 1..Len(s) |-> s[Len(s) + 1 - i]]

\* Mutant of SortRanked: a sort that does not keep the order of equal ranks
SortRankedUnstable(list) ==
    sort_by_key(Reverse(list), [i \in 1..Len(list) |-> Reverse(list)[i].rank])

\* ranked.sort_by_key(|r| r.rank)
SortRanked(list) == sort_by_key(list, [i \in 1..Len(list) |-> list[i].rank])

\* ranked.into_iter().take(4).collect()
Take(list, n) == SubSeq(list, 1, IF Len(list) < n THEN Len(list) ELSE n)

----------------------------------------------------------------------------
(* build_upcoming_games_index and format_team *)

\* Mutant of format_team: an empty city is used like any other
format_team_empty_city(team) ==
    IF IsSome(team.team_city) /\ IsSome(team.team_name)
    THEN Unwrap(team.team_city) \o " " \o Unwrap(team.team_name)
    ELSE IF IsSome(team.team_name) /\ Unwrap(team.team_name) # ""
         THEN Unwrap(team.team_name)
    ELSE "TBD Opponent"

format_team(team) ==
    IF IsSome(team.team_city) /\ IsSome(team.team_name)
       /\ Unwrap(team.team_city) # ""
    THEN Unwrap(team.team_city) \o " " \o Unwrap(team.team_name)
    ELSE IF IsSome(team.team_name) /\ Unwrap(team.team_name) # ""
         THEN Unwrap(team.team_name)
    ELSE "TBD Opponent"

\* GameListing::new
GameListing(date, opponent, is_home) ==
    [date |-> date, opponent |-> opponent, is_home |-> is_home]

\* A date-time string is [day, hour, zone]: the day of January 2024 and the
\* hour it shows, and its zone designator ("" when it has none).
\* DateTime::parse_from_rfc3339 wants an hour below 24 and a zone.
parse_from_rfc3339(date_str) ==
    IF date_str.zone = "" \/ date_str.hour < 0 \/ date_str.hour > 23
    THEN Err(<<"ParseError">>)
    ELSE Ok(date_str)

\* DateTime<FixedOffset>::date_naive: the date in the string's own zone
date_naive(date_time) == date_time.day

\* Mutant of OutsideWindow: the end day counts as inside
OutsideClosedWindow(game_day, start, end) == game_day < start \/ game_day > end

\* game_day < start || game_day >= end
OutsideWindow(game_day, start, end) == game_day < start \/ game_day >= end

\* index.entry(team_id).or_default().push(listing)
Push(index, team_id, listing) ==
    IF team_id \in DOMAIN index
    THEN [index EXCEPT ![team_id] = Append(@, listing)]
    ELSE [t \in DOMAIN index \cup {team_id} |->
            IF t = team_id THEN <<listing>> ELSE index[t]]

\* The body of the inner loop, for one game
IndexGame(index, game, start, end) ==
    IF ~IsSome(game.game_date_utc) THEN index
    ELSE LET date_time == parse_from_rfc3339(Unwrap(game.game_date_utc))
         IN  IF ~date_time.ok THEN index
             ELSE LET game_day == date_naive(date_time.val)
                      opponent_for_home == format_team(game.away_team)
                      opponent_for_away == format_team(game.home_team)
                      with_home ==
                          IF IsSome(game.home_team.team_id)
                          THEN Push(index, Unwrap(game.home_team.team_id),
                                    GameListing(game_day, opponent_for_home, TRUE))
                          ELSE index
                  IN  IF OutsideWindow(game_day, start, end) THEN index
                      ELSE IF IsSome(game.away_team.team_id)
                           THEN Push(with_home, Unwrap(game.away_team.team_id),
                                     GameListing(game_day, opponent_for_away, FALSE))
                      ELSE with_home

\* for game in &game_date.games
RECURSIVE IndexGames(_, _, _, _)
IndexGames(index, games, start, end) ==
    IF games = <<>> THEN index
    ELSE IndexGames(IndexGame(index, Head(games), start, end),
                    Tail(games), start, end)

\* for game_date in &schedule.league_schedule.game_dates
RECURSIVE IndexGameDates(_, _, _, _)
IndexGameDates(index, game_dates, start, end) ==
    IF game_dates = <<>> THEN index
    ELSE IndexGameDates(IndexGames(index, Head(game_dates), start, end),
                        Tail(game_dates), start, end)

\* Mutant of SortGames: the bucket is left in feed order
SortGamesSkipped(games) == games

\* games.sort_by_key(|game| game.date)
SortGames(games) == sort_by_key(games, [i \in 1..Len(games) |-> games[i].date])

build_upcoming_games_index(game_dates, start, end) ==
    LET index == IndexGameDates(<<>>, game_dates, start, end)
    IN  [t \in DOMAIN index |-> SortGames(index[t])]

----------------------------------------------------------------------------
(* run: printing *)

TwoDigits(n) == IF n < 10 THEN "0" \o ToString(n) ELSE ToString(n)

\* game.date.format("%Y-%m-%d")
FormatDate(date) == "2024-01-" \o TwoDigits(date)

HeaderLine(team) ==
    team.team_name \o " (Rank " \o ToString(team.rank) \o ")"

GameLine(game) ==
    "  " \o FormatDate(game.date) \o " "
         \o (IF game.is_home THEN "vs" ELSE "@") \o " " \o game.opponent

NoGamesLine == "  No games scheduled in the next 7 days."

\* Mutant of PrintBlock: the no-games line also follows the game lines
PrintBlockAlwaysNoGames(team, index) ==
    <<HeaderLine(team)>>
    \o (IF team.team_id \in DOMAIN index
        THEN [i \in 1..Len(index[team.team_id]) |->
                 GameLine(index[team.team_id][i])]
        ELSE <<>>)
    \o <<NoGamesLine, "">>

\* The lines one iteration of the loop over top_four prints
PrintBlock(team, index) ==
    <<HeaderLine(team)>>
    \o (IF team.team_id \in DOMAIN index
        THEN IF index[team.team_id] = <<>> THEN <<NoGamesLine>>
             ELSE [i \in 1..Len(index[team.team_id]) |->
                      GameLine(index[team.team_id][i])]
        ELSE <<NoGamesLine>>)
    \o <<"">>

----------------------------------------------------------------------------
(* The run, step by step *)

GetEvent(src, resp) ==
    [op |-> "GET", src |-> src,
     status |-> IF resp.sent THEN resp.status ELSE 0,
     ok |-> fetch_text(resp).ok, note |-> ""]

ParseEvent(src, resp, ok) ==
    [op |-> "parse", src |-> src, status |-> resp.status, ok |-> ok,
     note |-> IF src = "article" /\ resp.body.marker /\ resp.body.closed
                 /\ ~(resp.body.json.article = "present"
                      /\ resp.body.json.powerRankings = "present")
              THEN "no powerRankings" ELSE ""]

\* What a fetch_* function adds to the log: the request, and the parse of
\* its body once fetch_text has returned it
FetchEvents(src, resp, ok) ==
    <<GetEvent(src, resp)>>
    \o (IF fetch_text(resp).ok THEN <<ParseEvent(src, resp, ok)>> ELSE <<>>)

StepEvent(op) ==
    [op |-> op, src |-> "", status |-> 0, ok |-> TRUE, note |-> ""]

Init ==
    /\ pc = "build_client"
    /\ latest_slug = <<>>
    /\ rankings = <<>>
    /\ schedule = <<>>
    /\ today = 0
    /\ ranked = <<>>
    /\ top_four = <<>>
    /\ upcoming_games_index = <<>>
    /\ printed = 0
    /\ stdout = <<>>
    /\ stderr = <<>>
    /\ exit_code = -1
    /\ err = <<>>
    /\ log = <<>>

\* run returns Err(chain) through a `?` or bail!
Fail(chain) ==
    /\ pc' = "returned"
    /\ err' = chain

\* Client::builder()...build().context(..)?
BuildClient(built) ==
    /\ pc = "build_client"
    /\ IF built
       THEN pc' = "fetch_slug" /\ err' = err
       ELSE Fail(<<"failed to build HTTP client">>)
    /\ UNCHANGED <<latest_slug, rankings, schedule, today, ranked, top_four,
                   upcoming_games_index, printed, stdout, stderr, exit_code,
                   log>>

\* let latest_slug = fetch_latest_power_rankings_slug(&client)?;
FetchLatestSlug(responses) ==
    /\ pc = "fetch_slug"
    /\ \E resp \in responses :
       LET r == fetch_latest_power_rankings_slug(resp)
       IN  /\ log' = log \o FetchEvents("category", resp, r.ok)
           /\ IF r.ok
              THEN latest_slug' = r.val /\ pc' = "fetch_rankings" /\ err' = err
              ELSE latest_slug' = latest_slug /\ Fail(r.err)
    /\ UNCHANGED <<rankings, schedule, today, ranked, top_four,
                   upcoming_games_index, printed, stdout, stderr, exit_code>>

\* let rankings = fetch_power_rankings(&client, &latest_slug)?;
FetchPowerRankings(responses) ==
    /\ pc = "fetch_rankings"
    /\ \E resp \in responses :
       LET r == fetch_power_rankings(resp)
       IN  /\ log' = log \o FetchEvents("article", resp, r.ok)
           /\ IF r.ok
              THEN rankings' = r.val /\ pc' = "fetch_schedule" /\ err' = err
              ELSE rankings' = rankings /\ Fail(r.err)
    /\ UNCHANGED <<latest_slug, schedule, today, ranked, top_four,
                   upcoming_games_index, printed, stdout, stderr, exit_code>>

\* Mutant of FetchSchedule: a failed fetch is taken for an empty schedule
FetchScheduleLenient(responses) ==
    /\ pc = "fetch_schedule"
    /\ \E resp \in responses :
       LET r == fetch_schedule(resp)
       IN  /\ log' = log \o FetchEvents("schedule", resp, r.ok)
           /\ schedule' = IF r.ok THEN r.val ELSE <<>>
           /\ pc' = "resolve"
           /\ err' = err
    /\ UNCHANGED <<latest_slug, rankings, today, ranked, top_four,
                   upcoming_games_index, printed, stdout, stderr, exit_code>>

\* let schedule = fetch_schedule(&client)?;
FetchSchedule(responses) ==
    /\ pc = "fetch_schedule"
    /\ \E resp \in responses :
       LET r == fetch_schedule(resp)
       IN  /\ log' = log \o FetchEvents("schedule", resp, r.ok)
           /\ IF r.ok
              THEN schedule' = r.val /\ pc' = "resolve" /\ err' = err
              ELSE schedule' = schedule /\ Fail(r.err)
    /\ UNCHANGED <<latest_slug, rankings, today, ranked, top_four,
                   upcoming_games_index, printed, stdout, stderr, exit_code>>

\* Mutant of ResolveRankings: an empty list is not an error
ResolveRankingsNoBail(clock) ==
    /\ pc = "resolve"
    /\ \E now \in clock : today' = now
    /\ ranked' = FilterMap(rankings)
    /\ pc' = "sort"
    /\ UNCHANGED <<latest_slug, rankings, schedule, top_four,
                   upcoming_games_index, printed, stdout, stderr, exit_code,
                   err, log>>

\* today, cutoff, the filter_map and the bail! on an empty list
ResolveRankings(clock) ==
    /\ pc = "resolve"
    /\ \E now \in clock : today' = now
    /\ ranked' = FilterMap(rankings)
    /\ IF ranked' = <<>>
       THEN Fail(<<"no ranked teams found in the latest power rankings article">>)
       ELSE pc' = "sort" /\ err' = err
    /\ UNCHANGED <<latest_slug, rankings, schedule, top_four,
                   upcoming_games_index, printed, stdout, stderr, exit_code,
                   log>>

\* ranked.sort_by_key, top_four, build_upcoming_games_index
SortAndIndex ==
    /\ pc = "sort"
    /\ ranked' = SortRanked(ranked)
    /\ top_four' = Take(ranked', TopCount)
    /\ upcoming_games_index' =
           build_upcoming_games_index(schedule, today, today + WindowDays)
    /\ log' = Append(log, StepEvent("index"))
    /\ pc' = "print"
    /\ UNCHANGED <<latest_slug, rankings, schedule, today, printed, stdout,
                   stderr, exit_code, err>>

\* One iteration of `for team in top_four`
PrintTeam ==
    /\ pc = "print"
    /\ printed < Len(top_four)
    /\ stdout' = stdout \o PrintBlock(top_four[printed + 1], upcoming_games_index)
    /\ printed' = printed + 1
    /\ log' = Append(log, StepEvent("print"))
    /\ UNCHANGED <<pc, latest_slug, rankings, schedule, today, ranked, top_four,
                   upcoming_games_index, stderr, exit_code, err>>

\* The loop is over: Ok(())
ReturnOk ==
    /\ pc = "print"
    /\ printed = Len(top_four)
    /\ pc' = "returned"
    /\ UNCHANGED <<latest_slug, rankings, schedule, today, ranked, top_four,
                   upcoming_games_index, printed, stdout, stderr, exit_code,
                   err, log>>

\* eprintln!("error: {err:?}")
ErrorLine(chain) == <<"error: ">> \o chain

\* main: if let Err(err) = run() { eprintln!(..); exit(1) }
MainExit ==
    /\ pc = "returned"
    /\ pc' = "exited"
    /\ IF err # <<>>
       THEN stderr' = Append(stderr, ErrorLine(err)) /\ exit_code' = 1
       ELSE stderr' = stderr /\ exit_code' = 0
    /\ UNCHANGED <<latest_slug, rankings, schedule, today, ranked, top_four,
                   upcoming_games_index, printed, stdout, err, log>>

\* A run whose responses and clock are drawn from the given sets
Run(categories, articles, schedules, clock) ==
    \/ \E built \in BOOLEAN : BuildClient(built)
    \/ FetchLatestSlug(categories)
    \/ FetchPowerRankings(articles)
    \/ FetchSchedule(schedules)
    \/ ResolveRankings(clock)
    \/ SortAndIndex
    \/ PrintTeam
    \/ ReturnOk
    \/ MainExit

----------------------------------------------------------------------------
(* What the network and the clock may answer *)

SeqsUpTo(S, n) == UNION {[1..k -> S] : k \in 0..n}

Statuses == {200, 304, 404, 500}

\* Every way a request can end, for the given bodies
Responses(bodies) ==
    [sent : BOOLEAN, status : Statuses, readable : BOOLEAN, body : bodies]

\* A 200 response whose body reads
Success(body) ==
    [sent |-> TRUE, status |-> 200, readable |-> TRUE, body |-> body]

Html(json) == [marker |-> TRUE, closed |-> TRUE, json |-> json]

HtmlBodies(jsons) == [marker : BOOLEAN, closed : BOOLEAN, json : jsons]

CategoryJsons ==
    [valid : BOOLEAN,
     items : {<<>>, << <<" ">> >>, << <<"p", "r">> >>,
              << <<>>, <<" ", "w", "k", " ">>, <<"p", "r">> >>}]

CategoryPage == Html([valid |-> TRUE, items |-> << <<"p", "r">> >>])

Entry(rank, team_id, name, nickname, display_name) ==
    [current_week_rank |-> rank, team_id |-> team_id, team_name |-> name,
     team_nickname |-> nickname, team_display_name |-> display_name]

TeamNames == <<"Celtics", "Lakers", "Nuggets", "Bucks", "Suns", "Knicks",
               "Thunder">>

\* The entry of team i, complete, at the given rank
TeamEntry(i, rank) == Entry(Some(rank), Some(i), Some(TeamNames[i]), None, None)

ArticleJson(entries) ==
    [valid |-> TRUE, article |-> "present", powerRankings |-> "present",
     entries |-> entries]

ArticlePage(entries) == Html(ArticleJson(entries))

ArticleJsons(entryLists) ==
    [valid : BOOLEAN, article : {"missing", "null", "present"},
     powerRankings : {"missing", "null", "present"}, entries : entryLists]

Team(team_id, city, name) ==
    [team_id |-> team_id, team_city |-> city, team_name |-> name]

Celtics == Team(Some(1), Some("Boston"), Some("Celtics"))
Lakers == Team(Some(2), Some("Los Angeles"), Some("Lakers"))
Nuggets == Team(Some(3), Some(""), Some("Nuggets"))
Unknown == Team(None, None, None)

Game(date, home, away) ==
    [game_date_utc |-> date, home_team |-> home, away_team |-> away]

\* "2024-01-<day>T<hour>:..Z"
Utc(day, hour) == Some([day |-> day, hour |-> hour, zone |-> "Z"])

ScheduleJson(game_dates) == [valid |-> TRUE, game_dates |-> game_dates]

----------------------------------------------------------------------------
(* Spec: every way a fetch can end, over a few pages *)

SomeEntryLists ==
    {<<>>,
     <<Entry(None, Some(1), Some("Celtics"), None, None)>>,
     <<TeamEntry(1, 1)>>,
     <<Entry(Some(2), Some(2), None, Some("Lakers"), None), TeamEntry(1, 1)>>}

SomeSchedules ==
    {<<>>,
     << <<Game(Utc(12, 19), Celtics, Lakers)>> >>,
     << <<Game(Utc(13, 2), Lakers, Nuggets)>>, <<Game(Utc(12, 19), Celtics, Lakers)>> >>}

CategoryResponses == Responses(HtmlBodies(CategoryJsons))

ArticleResponses == Responses(HtmlBodies(ArticleJsons(SomeEntryLists)))

ScheduleResponses == Responses([valid : BOOLEAN, game_dates : SomeSchedules])

\* The day Utc::now() shows: the 10th
Clock == {10}

Next == Run(CategoryResponses, ArticleResponses, ScheduleResponses, Clock)

Spec == Init /\ [][Next]_vars

----------------------------------------------------------------------------
(* Properties of the whole run, checked under Spec *)

NoRankedTeams ==
    <<"no ranked teams found in the latest power rankings article">>

Sources == <<"category", "article", "schedule">>

\* The positions of the log holding an event of this kind
Events(op, src) == {i \in 1..Len(log) : log[i].op = op /\ log[i].src = src}

\* The fetch of src returned a body and the body parsed into a value
Fetched(src) == \E i \in Events("parse", src) : log[i].ok

\* The entry has a rank, a team id and one of the three names
Survives(entry) ==
    /\ entry.current_week_rank # None
    /\ entry.team_id # None
    /\ \/ entry.team_name # None
       \/ entry.team_nickname # None
       \/ entry.team_display_name # None

NoneSurvive == \A i \in 1..Len(rankings) : ~Survives(rankings[i])

BlankLines == {i \in 1..Len(stdout) : stdout[i] = ""}

\* C6: nothing is on standard output unless the three fetches, their parses
\* and the ranked-teams check all succeeded; a run that ends in an error has
\* written no report line, has printed the error to standard error and exits
\* with status 1; a run without error exits with status 0 after printing
\* every block.
NoPartialResult ==
    /\ stdout # <<>> =>
          /\ \A k \in 1..3 : Fetched(Sources[k])
          /\ ~NoneSurvive
          /\ err = <<>>
    /\ err # <<>> => stdout = <<>> /\ pc \in {"returned", "exited"}
    /\ exit_code # -1 <=> pc = "exited"
    /\ pc = "exited" /\ err # <<>> =>
          /\ exit_code = 1
          /\ stderr = <<ErrorLine(err)>>
    /\ pc = "exited" /\ err = <<>> =>
          /\ exit_code = 0
          /\ stderr = <<>>
          /\ Len(top_four) >= 1
          /\ Cardinality(BlankLines) = Len(top_four)
    /\ pc # "exited" => stderr = <<>>

\* C6 witness: a run that failed after all three fetches, with nothing printed
NoPartialResultWitness ==
    /\ pc = "exited"
    /\ exit_code = 1
    /\ \A k \in 1..3 : Fetched(Sources[k])
    /\ Len(rankings) >= 1
    /\ stdout = <<>>
    /\ stderr # <<>>

IsSuccessStatus(status) == status >= 200 /\ status <= 299

\* C9: the calls are made in the order category, article, schedule, at most
\* one per source; a call is issued only after every earlier call returned a
\* 2xx response whose body parsed; after a non-2xx response that response is
\* not parsed and no later fetch, indexing or printing step is performed.
SequentialFailFast ==
    LET gets == {i \in 1..Len(log) : log[i].op = "GET"}
    IN  /\ Cardinality(gets) <= 3
        /\ \A i \in gets :
              log[i].src = Sources[Cardinality({j \in gets : j <= i})]
        /\ \A i, j \in gets :
              i < j => /\ IsSuccessStatus(log[i].status)
                       /\ \E k \in Events("parse", log[i].src) :
                             i < k /\ k < j /\ log[k].ok
        /\ \A i \in gets :
              ~IsSuccessStatus(log[i].status) =>
                  /\ i = Len(log)
                  /\ stdout = <<>>
                  /\ upcoming_games_index = <<>>

----------------------------------------------------------------------------
(* SpecRankings: the fetches succeed, over many articles *)

MaxEntries == 2
MaxRanked == 5
MaxRank == 3

\* Entries with or without a rank, a team id and a name
PartialEntries ==
    [current_week_rank : {None, Some(1), Some(2)},
     team_id : {None, Some(1), Some(2)},
     team_name : {None}, team_nickname : {None},
     team_display_name : {None, Some("C")}]

\* Entries with a rank and a team id, and any of the three names
NamedEntries ==
    [current_week_rank : {Some(1)}, team_id : {Some(1)},
     team_name : {None, Some(""), Some("A")},
     team_nickname : {None, Some("B")},
     team_display_name : {None, Some("C")}]

\* Articles of complete entries, team i at position i, at any ranks
RankedLists ==
    UNION {{[i \in 1..n |-> TeamEntry(i, r[i])] : r \in [1..n -> 1..MaxRank]} :
           n \in 0..MaxRanked}

ManyEntryLists ==
    SeqsUpTo(PartialEntries, MaxEntries)
        \cup {<<e>> : e \in NamedEntries}
        \cup RankedLists

CategoryFound == {Success(CategoryPage)}

ManyArticles == {Success(ArticlePage(entries)) : entries \in ManyEntryLists}

OneSchedule ==
    {Success(ScheduleJson(<< <<Game(Utc(12, 19), Celtics, Lakers)>> >>))}

NextRankings == Run(CategoryFound, ManyArticles, OneSchedule, Clock)

SpecRankings == Init /\ [][NextRankings]_vars

\* The positions of the article's entries that survive
Kept == {i \in 1..Len(rankings) : Survives(rankings[i])}

\* The position in the resolved list of the survivor at position i
Nth(i) == Cardinality({j \in Kept : j <= i})

\* C1: an entry yields a resolved ranking if and only if it has a rank, a
\* team id and one of the three names, and each surviving entry yields one
\* resolved ranking with its own rank and team id: right after the filter
\* the resolved list is the survivors, in article order; after the sort it
\* still holds one ranking per survivor.
FilterKeepsCompleteEntries ==
    /\ pc = "sort" \/ err = NoRankedTeams =>
          /\ Len(ranked) = Cardinality(Kept)
          /\ \A i \in Kept :
                /\ ranked[Nth(i)].rank = rankings[i].current_week_rank[1]
                /\ ranked[Nth(i)].team_id = rankings[i].team_id[1]
    /\ pc = "print" =>
          /\ Len(ranked) = Cardinality(Kept)
          /\ \A k \in 1..Len(ranked) : \E i \in Kept :
                /\ ranked[k].rank = rankings[i].current_week_rank[1]
                /\ ranked[k].team_id = rankings[i].team_id[1]

\* C1 witness: of two entries with rank and team id the one without a name
\* was dropped and the other kept
FilterKeepsCompleteEntriesWitness ==
    /\ pc = "sort"
    /\ Len(rankings) = 2
    /\ rankings[1].current_week_rank = Some(1)
    /\ rankings[1].team_id = Some(1)
    /\ rankings[1].team_display_name = None
    /\ rankings[2].current_week_rank = Some(2)
    /\ rankings[2].team_id = Some(2)
    /\ ranked = <<[rank |-> 2, team_id |-> 2, team_name |-> "C"]>>

\* C8: the resolved name of a surviving entry is teamName when present,
\* else teamNickname when present, else teamDisplayName.
NamePrecedence ==
    pc = "sort" =>
        \A i \in Kept :
            ranked[Nth(i)].team_name =
                IF rankings[i].team_name # None
                THEN rankings[i].team_name[1]
                ELSE IF rankings[i].team_nickname # None
                     THEN rankings[i].team_nickname[1]
                     ELSE rankings[i].team_display_name[1]

\* C8 witness: an entry with nickname and display name only resolved to the
\* nickname
NamePrecedenceWitness ==
    /\ pc = "sort"
    /\ Len(rankings) = 1
    /\ rankings[1].team_name = None
    /\ rankings[1].team_nickname = Some("B")
    /\ rankings[1].team_display_name = Some("C")
    /\ ranked[1].team_name = "B"

\* The resolved ranking a surviving entry is owed
Resolved(entry) ==
    [rank |-> entry.current_week_rank[1],
     team_id |-> entry.team_id[1],
     team_name |-> IF entry.team_name # None THEN entry.team_name[1]
                   ELSE IF entry.team_nickname # None
                        THEN entry.team_nickname[1]
                        ELSE entry.team_display_name[1]]

\* The survivors in article order
Survivors ==
    [k \in 1..Cardinality(Kept) |->
        Resolved(rankings[CHOOSE i \in Kept : Nth(i) = k])]

SameRank(seq, rank) == SelectSeq(seq, LAMBDA x : x.rank = rank)

\* C2: after the sort the resolved list is ascending by rank, entries of
\* equal rank are in the order of the article, and the teams reported are
\* the first min(4, n) entries of the sorted list of the n survivors.
RankedOrder ==
    pc = "print" =>
        /\ Len(ranked) = Cardinality(Kept)
        /\ \A i, j \in 1..Len(ranked) : i < j => ranked[i].rank <= ranked[j].rank
        /\ \A rank \in {Survivors[k].rank : k \in 1..Len(Survivors)} :
              SameRank(ranked, rank) = SameRank(Survivors, rank)
        /\ Len(top_four) = (IF Len(ranked) < 4 THEN Len(ranked) ELSE 4)
        /\ \A k \in 1..Len(top_four) : top_four[k] = ranked[k]

\* C2 witness: five survivors out of rank order with a tie; four reported
RankedOrderWitness ==
    /\ pc = "print"
    /\ Len(ranked) = 5
    /\ Len(top_four) = 4
    /\ rankings[1].current_week_rank = Some(2)
    /\ rankings[2].current_week_rank = Some(1)
    /\ rankings[3].current_week_rank = Some(1)
    /\ ranked[1].team_id = 2
    /\ ranked[2].team_id = 3

----------------------------------------------------------------------------
(* SpecSchedule: the fetches succeed, over many schedules *)

MaxWindowGames == 2
MaxFeedGames == 3

\* Five teams ranked 1 to 5, and two teams listed out of rank order
SomeArticles ==
    {[i \in 1..5 |-> TeamEntry(i, i)], <<TeamEntry(3, 2), TeamEntry(1, 1)>>}

\* Opponents with every kind of city and name
LabelTeams ==
    [team_id : {Some(2)},
     team_city : {None, Some(""), Some("Los Angeles")},
     team_name : {None, Some(""), Some("Lakers")}]

LabelSchedules ==
    {<< <<Game(Utc(12, 19), Celtics, team)>> >> : team \in LabelTeams}

\* A single game with no date, a date without zone or an hour of 24
OddDateSchedules ==
    {<< <<Game(date, Celtics, Lakers)>> >> :
        date \in {None, Some([day |-> 12, hour |-> 19, zone |-> ""]), Utc(12, 24)}}

\* The days around the window's two ends
WindowDates == {Utc(9, 23), Utc(10, 0), Utc(16, 23), Utc(17, 0)}

WindowGames ==
    {Game(date, teams[1], teams[2]) :
        date \in WindowDates,
        teams \in {<<Celtics, Lakers>>, <<Celtics, Unknown>>, <<Unknown, Lakers>>}}

WindowSchedules == {<<games>> : games \in SeqsUpTo(WindowGames, MaxWindowGames)}

FeedGames ==
    {Game(Utc(day, 19), teams[1], teams[2]) :
        day \in {11, 12},
        teams \in {<<Celtics, Lakers>>, <<Lakers, Celtics>>, <<Celtics, Nuggets>>}}

\* Feeds of games inside the window, the first game in a game-date of its
\* own and the others in a second one
FeedSchedules ==
    {<<SubSeq(games, 1, IF games = <<>> THEN 0 ELSE 1),
       SubSeq(games, 2, Len(games))>> :
        games \in SeqsUpTo(FeedGames, MaxFeedGames)}

TwoArticles == {Success(ArticlePage(entries)) : entries \in SomeArticles}

ManySchedules ==
    {Success(ScheduleJson(game_dates)) :
        game_dates \in LabelSchedules \cup OddDateSchedules
                        \cup WindowSchedules \cup FeedSchedules}

\* The day Utc::now() shows: the 10th or the 11th
TwoDays == {10, 11}

NextSchedule == Run(CategoryFound, TwoArticles, ManySchedules, TwoDays)

SpecSchedule == Init /\ [][NextSchedule]_vars

\* The games of the feed, game-dates in order, games within each in order
RECURSIVE Flatten(_)
Flatten(game_dates) ==
    IF game_dates = <<>> THEN <<>>
    ELSE Head(game_dates) \o Flatten(Tail(game_dates))

Feed == Flatten(schedule)

\* C7's label of a schedule team
OpponentLabel(team) ==
    IF team.team_city # None /\ team.team_name # None /\ team.team_city[1] # ""
    THEN team.team_city[1] \o " " \o team.team_name[1]
    ELSE IF team.team_name # None /\ team.team_name[1] # ""
         THEN team.team_name[1]
         ELSE "TBD Opponent"

\* The game's date-time string is present, parses, and shows a day in
\* [today, today + 7)
InWindow(game) ==
    /\ game.game_date_utc # None
    /\ game.game_date_utc[1].zone # ""
    /\ game.game_date_utc[1].hour \in 0..23
    /\ today <= game.game_date_utc[1].day
    /\ game.game_date_utc[1].day < today + 7

\* The listings the game owes the team: the home one, then the away one
Owed(game, team_id) ==
    IF ~InWindow(game) THEN <<>>
    ELSE (IF game.home_team.team_id = Some(team_id)
          THEN <<[date |-> game.game_date_utc[1].day,
                  opponent |-> OpponentLabel(game.away_team),
                  is_home |-> TRUE]>>
          ELSE <<>>)
         \o (IF game.away_team.team_id = Some(team_id)
             THEN <<[date |-> game.game_date_utc[1].day,
                     opponent |-> OpponentLabel(game.home_team),
                     is_home |-> FALSE]>>
             ELSE <<>>)

\* The listings the feed owes the team, in feed order
RECURSIVE OwedBy(_, _)
OwedBy(games, team_id) ==
    IF games = <<>> THEN <<>>
    ELSE Owed(Head(games), team_id) \o OwedBy(Tail(games), team_id)

Bucket(team_id) ==
    IF team_id \in DOMAIN upcoming_games_index
    THEN upcoming_games_index[team_id]
    ELSE <<>>

Count(seq, x) == Cardinality({i \in 1..Len(seq) : seq[i] = x})

Range(seq) == {seq[i] : i \in 1..Len(seq)}

TeamIds == 1..5 \cup DOMAIN upcoming_games_index

\* C3: a game contributes listings if and only if its date-time string is
\* present, parses and shows a day in [start, end); such a game gives the
\* home team's bucket one home listing against the away team's label and the
\* away team's bucket one away listing against the home team's label, each
\* when the team's id is present; the index holds no other listing, so every
\* listing's date lies in [start, end).
IndexHoldsWindowGames ==
    pc = "print" =>
        /\ \A t \in TeamIds :
              /\ t \in DOMAIN upcoming_games_index <=> OwedBy(Feed, t) # <<>>
              /\ \A x \in Range(Bucket(t)) \cup Range(OwedBy(Feed, t)) :
                    Count(Bucket(t), x) = Count(OwedBy(Feed, t), x)
        /\ \A t \in DOMAIN upcoming_games_index :
              \A i \in 1..Len(upcoming_games_index[t]) :
                  /\ today <= upcoming_games_index[t][i].date
                  /\ upcoming_games_index[t][i].date < today + 7

\* C3 witness: the window is [10, 17); the game of the 16th at 23h is listed
\* for both teams and the game of the 17th at 0h is not
IndexHoldsWindowGamesWitness ==
    /\ pc = "print"
    /\ today = 10
    /\ schedule = << <<Game(Utc(16, 23), Celtics, Lakers),
                       Game(Utc(17, 0), Celtics, Lakers)>> >>
    /\ DOMAIN upcoming_games_index = {1, 2}
    /\ upcoming_games_index[1] =
          <<[date |-> 16, opponent |-> "Los Angeles Lakers", is_home |-> TRUE]>>
    /\ upcoming_games_index[2] =
          <<[date |-> 16, opponent |-> "Boston Celtics", is_home |-> FALSE]>>

SameDate(seq, date) == SelectSeq(seq, LAMBDA x : x.date = date)

\* C4: every team's listings are ascending by date whatever the order of the
\* feed, and the listings of one date are in the order of their games in the
\* feed.
BucketsSortedByDate ==
    pc = "print" =>
        \A t \in DOMAIN upcoming_games_index :
            /\ \A i, j \in 1..Len(upcoming_games_index[t]) :
                  i < j => upcoming_games_index[t][i].date
                              <= upcoming_games_index[t][j].date
            /\ \A date \in {x.date : x \in Range(OwedBy(Feed, t))} :
                  SameDate(upcoming_games_index[t], date)
                      = SameDate(OwedBy(Feed, t), date)

\* C4 witness: a feed with a later game first and two games on one day
BucketsSortedByDateWitness ==
    /\ pc = "print"
    /\ Feed = <<Game(Utc(12, 19), Celtics, Lakers),
                Game(Utc(11, 19), Celtics, Nuggets),
                Game(Utc(11, 19), Lakers, Celtics)>>
    /\ upcoming_games_index[1] =
          <<[date |-> 11, opponent |-> "Nuggets", is_home |-> TRUE],
            [date |-> 11, opponent |-> "Los Angeles Lakers", is_home |-> FALSE],
            [date |-> 12, opponent |-> "Los Angeles Lakers", is_home |-> TRUE]>>

\* C7: the label of a schedule team is "{city} {name}" when city and name are
\* present and city is not empty, else name when present and not empty, else
\* "TBD Opponent": every listing of a game in the window carries that label
\* of the other team.
OpponentLabels ==
    pc = "print" =>
        \A p \in 1..Len(Feed) :
            InWindow(Feed[p]) =>
                /\ Feed[p].home_team.team_id # None =>
                      \E x \in Range(Bucket(Feed[p].home_team.team_id[1])) :
                          /\ x.is_home
                          /\ x.date = Feed[p].game_date_utc[1].day
                          /\ x.opponent = OpponentLabel(Feed[p].away_team)
                /\ Feed[p].away_team.team_id # None =>
                      \E x \in Range(Bucket(Feed[p].away_team.team_id[1])) :
                          /\ ~x.is_home
                          /\ x.date = Feed[p].game_date_utc[1].day
                          /\ x.opponent = OpponentLabel(Feed[p].home_team)

\* C7 witness: an opponent whose city and name are both empty
OpponentLabelsWitness ==
    /\ pc = "print"
    /\ Len(Feed) = 1
    /\ Feed[1].away_team = Team(Some(2), Some(""), Some(""))
    /\ upcoming_games_index[1][1].opponent = "TBD Opponent"

\* The block the report owes a team
OwedBlock(team) ==
    <<team.team_name \o " (Rank " \o ToString(team.rank) \o ")">>
    \o (IF Bucket(team.team_id) # <<>>
        THEN [i \in 1..Len(Bucket(team.team_id)) |->
                 GameLine(Bucket(team.team_id)[i])]
        ELSE <<"  No games scheduled in the next 7 days.">>)
    \o <<"">>

RECURSIVE OwedBlocks(_)
OwedBlocks(n) ==
    IF n = 0 THEN <<>> ELSE OwedBlocks(n - 1) \o OwedBlock(top_four[n])

\* C5: the output is one block per top-four team in rank order: the header
\* line, then one line per listing of the team's bucket in the bucket's order
\* ("vs" at home, "@" away) or, without a bucket or with an empty one, the
\* single no-games line, then a blank line; no block holds both game lines
\* and the no-games line.
ReportBlocks ==
    /\ pc = "print" => stdout = OwedBlocks(printed)
    /\ pc \in {"returned", "exited"} /\ err = <<>> =>
          stdout = OwedBlocks(Len(top_four))
    /\ \A i \in 1..Len(stdout) :
          stdout[i] = NoGamesLine =>
              /\ i > 1 /\ i < Len(stdout)
              /\ \E k \in 1..Len(top_four) : stdout[i - 1] = HeaderLine(top_four[k])
              /\ stdout[i + 1] = ""
    /\ \A i \in 1..Len(stdout) :
          \A t \in DOMAIN upcoming_games_index :
              \A x \in Range(upcoming_games_index[t]) :
                  stdout[i] = GameLine(x) =>
                      /\ x.is_home => stdout[i] = "  " \o FormatDate(x.date)
                                                     \o " vs " \o x.opponent
                      /\ ~x.is_home => stdout[i] = "  " \o FormatDate(x.date)
                                                      \o " @ " \o x.opponent

\* C5 witness: four blocks, the first with two games, the fourth without
ReportBlocksWitness ==
    /\ pc = "exited"
    /\ exit_code = 0
    /\ Len(stdout) = 13
    /\ stdout[1] = "Celtics (Rank 1)"
    /\ stdout[2] = "  2024-01-11 @ Los Angeles Lakers"
    /\ stdout[3] = "  2024-01-12 vs Nuggets"
    /\ stdout[4] = ""
    /\ stdout[11] = "Bucks (Rank 4)"
    /\ stdout[12] = "  No games scheduled in the next 7 days."
    /\ stdout[13] = ""

====
